---------------------------- MODULE Spec2Model ----------------------------
(***************************************************************************)
(* Model of the Rossum Elis extraction client (src/rossum/extraction.py). *)
(*                                                                         *)
(* Part 1 models one call of ElisExtractionApi.extract or of               *)
(* ElisExtractionApi.get_document as a state machine: the upload           *)
(* (send_document), the polling loop (polling.poll as called by            *)
(* get_document, with get_document_status as its target) and the handling *)
(* of the terminal response.  The remote service and the transport are     *)
(* the environment: every response and every transport failure is a        *)
(* nondeterministic choice.                                                *)
(*                                                                         *)
(* Time is counted in ticks of half a second since polling.poll was        *)
(* entered, so that sleep_secs may be a multiple of 0.5 and the rounding   *)
(* in int(round(max_retries * sleep_secs)) is visible.                     *)
(*                                                                         *)
(* polling.poll is the poll function of the package `polling` that         *)
(* setup.py requires.  Its loop, as get_document uses it: call the target; *)
(* return its value if check_success holds of it; otherwise, if max_time   *)
(* is not None and time.time() >= max_time, raise TimeoutException;        *)
(* otherwise sleep step seconds and repeat.  max_time is                   *)
(* time.time() + timeout if timeout else None, so that a timeout of 0      *)
(* sets no deadline.  An exception of the target is not caught.            *)
(*                                                                         *)
(* Progress output (print) is not modelled.                                *)
(***************************************************************************)
EXTENDS Integers, Sequences, FiniteSets, TLC

---------------------------------------------------------------------------
(* Bounds of the model *)

\* largest max_retries argument of a direct get_document call
MaxRetriesArg == 3
\* largest sleep_secs argument of a direct get_document call, in ticks
MaxSleepTicks == 3
\* longest duration of one status request, in ticks
MaxQueryTicks == 1
\* status requests after which the model stops following a poll that has
\* no deadline (a poll with a deadline ends by itself)
MaxQueries == 6

(* Program constants *)

\* get_document(..., max_retries=120, ...)
DefaultMaxRetries == 120
\* get_document(..., sleep_secs=5, ...), in seconds
DefaultSleepSecs == 5
\* ticks in one second
TicksPerSec == 2

---------------------------------------------------------------------------
(* Values *)

\* a key that a JSON object (a Python dict) does not have
Absent == "<absent>"

Filters == {"best", "all", "worst"}
ValidFilters == {"best", "all"}

JobIds == {"job-1"}
SubmitErrors == {"unsupported file"}
Messages == {"msg-a", "msg-b"}
Payloads == {"fields-a", "fields-b"}
PyMajors == {2, 3}

\* Python's None
None == "<None>"
\* locales a caller may pass
Locales == {"en_US"}
\* self.default_locale
default_locale == "en_GB"

\* JSON objects the service may answer to POST /document
SubmitResponses ==
  [id : JobIds \cup {Absent}, error : SubmitErrors \cup {Absent}]

\* JSON objects the service may answer to GET /document/<id>
StatusResponses ==
       {[status |-> "processing", message |-> Absent, fields |-> Absent]}
  \cup [status : {"ready"}, message : {Absent}, fields : Payloads]
  \cup [status : {"error"}, message : Messages \cup {Absent}, fields : {Absent}]

NoSubmitResponse == [id |-> Absent, error |-> Absent]

NoResponse == [status |-> Absent, message |-> Absent, fields |-> Absent]

\* exceptions
NoExc == [type |-> "none", msg |-> ""]
Exc(t, m) == [type |-> t, msg |-> m]

\* what requests.post / requests.get and json.loads may raise
RequestFailures ==
  { Exc("ConnectionError", "network"), Exc("ValueError", "malformed JSON") }

\* a status request also fails when the JSON object has no 'status' key
StatusFailures == RequestFailures \cup { Exc("KeyError", "status") }

---------------------------------------------------------------------------
VARIABLES
  pc,           \* position of the call
  entry,        \* the method called: "extract" or "get_document"
  filter,       \* the filter argument
  output_file,  \* whether extract was given an output_file
  max_retries,  \* get_document's max_retries
  sleep_ticks,  \* get_document's sleep_secs, in ticks
  fileOpen,     \* the document file handle of send_document is open
  send_result,  \* the parsed JSON object of the submit response
  document_id,  \* send_result['id']
  deadline,     \* polling.poll's max_time: [set, at]; set = FALSE is None
  now,          \* ticks since polling.poll was entered
  val,          \* the last response the poll target returned
  nSubmits,     \* POST /document requests issued
  nQueries,     \* GET /document/<id> requests issued
  nProcessing,  \* status responses with status 'processing'
  nDone,        \* status responses with another status
  nFailed,      \* status requests that raised
  firstDone,    \* the first status response that was not 'processing'
  lastFailure,  \* the exception of the last status request that raised
  saved,        \* number of times _save_extraction wrote the output file
  written,      \* the content of the output file
  locale,       \* the locale argument
  post_locale,  \* the locale parameter of the POST /document request
  result,       \* the value returned to the caller
  exc,          \* the exception raised to the caller
  invoice_fields, \* the argument of _deduplicate_fields
  deduplicated, \* the list _deduplicate_fields returned
  again,        \* the list returned for the argument deduplicated
  calls         \* number of calls of _deduplicate_fields made

vars == << pc, entry, filter, output_file, locale, post_locale, max_retries,
           sleep_ticks, fileOpen,
           send_result, document_id, deadline, now, val, nSubmits, nQueries,
           nProcessing, nDone, nFailed, firstDone, lastFailure, saved, written, result,
           exc, invoice_fields, deduplicated, again, calls >>

argVars == << entry, filter, output_file, locale, max_retries, sleep_ticks >>
pollVars == << deadline, now, val, nQueries, nProcessing, nDone, nFailed,
               firstDone, lastFailure >>
sendVars == << fileOpen, send_result, document_id, nSubmits, post_locale >>
dedupVars == << invoice_fields, deduplicated, again, calls >>
protocolVars == << pc, entry, filter, output_file, locale, post_locale,
                   max_retries, sleep_ticks,
                   fileOpen, send_result, document_id, deadline, now, val,
                   nSubmits, nQueries, nProcessing, nDone, nFailed, firstDone,
                   lastFailure, saved, written, result, exc >>

NoDeadline == [set |-> FALSE, at |-> 0]

\* the client before a call
ProtocolInit ==
  /\ pc = "idle"
  /\ entry = "none"
  /\ filter = "best"
  /\ output_file = FALSE
  /\ max_retries = DefaultMaxRetries
  /\ sleep_ticks = DefaultSleepSecs * TicksPerSec
  /\ fileOpen = FALSE
  /\ send_result = NoSubmitResponse
  /\ document_id = Absent
  /\ deadline = NoDeadline
  /\ now = 0
  /\ val = NoResponse
  /\ nSubmits = 0
  /\ nQueries = 0
  /\ nProcessing = 0
  /\ nDone = 0
  /\ nFailed = 0
  /\ firstDone = NoResponse
  /\ lastFailure = NoExc
  /\ saved = 0
  /\ written = NoResponse
  /\ locale = None
  /\ post_locale = Absent
  /\ result = NoResponse
  /\ exc = NoExc

Init ==
  /\ ProtocolInit
  /\ invoice_fields = << >>
  /\ deduplicated = << >>
  /\ again = << >>
  /\ calls = 0

\* an exception leaves the call: nothing is returned
Raise(e) ==
  /\ pc' = "done"
  /\ exc' = e
  /\ result' = NoResponse

\* a value is returned to the caller
Return(v) ==
  /\ pc' = "done"
  /\ result' = v
  /\ exc' = NoExc

---------------------------------------------------------------------------
(* The caller *)

\* client.extract(document_file, output_file, filter, locale): get_document is
\* called with its default max_retries and sleep_secs
CallExtract ==
  /\ pc = "idle"
  /\ \E f \in Filters, o \in BOOLEAN, l \in Locales \cup {None} :
       /\ filter' = f
       /\ output_file' = o
       /\ locale' = l
  /\ entry' = "extract"
  /\ pc' = "send_document"
  /\ UNCHANGED << max_retries, sleep_ticks, saved, written, result, exc >>
  /\ UNCHANGED sendVars
  /\ UNCHANGED pollVars
  /\ UNCHANGED dedupVars

\* client.get_document(document_id, filter, max_retries, sleep_secs)
CallGetDocument ==
  /\ pc = "idle"
  /\ \E f \in Filters, r \in 0..MaxRetriesArg, s \in 0..MaxSleepTicks,
        d \in JobIds :
       /\ filter' = f
       /\ max_retries' = r
       /\ sleep_ticks' = s
       /\ document_id' = d
  /\ entry' = "get_document"
  /\ pc' = "get_document"
  /\ UNCHANGED << output_file, locale, fileOpen, send_result, nSubmits,
                  post_locale, saved, written, result, exc >>
  /\ UNCHANGED pollVars
  /\ UNCHANGED dedupVars

---------------------------------------------------------------------------
(* send_document *)

\* open(document_path, 'rb') succeeds: the with block is entered
OpenDocument ==
  /\ pc = "send_document"
  /\ fileOpen' = TRUE
  /\ pc' = "post"
  /\ UNCHANGED << send_result, document_id, nSubmits, post_locale, saved,
                  written, result, exc >>
  /\ UNCHANGED argVars
  /\ UNCHANGED pollVars
  /\ UNCHANGED dedupVars

\* open(document_path, 'rb') raises: no request is made
OpenDocumentFails ==
  /\ pc = "send_document"
  /\ Raise(Exc("IOError", "cannot open document"))
  /\ UNCHANGED << saved, written >>
  /\ UNCHANGED sendVars
  /\ UNCHANGED argVars
  /\ UNCHANGED pollVars
  /\ UNCHANGED dedupVars

LocaleParamDefault(given) == default_locale

\* if locale is None: locale = self.default_locale; the request goes to
\* '%s/document?locale=%s' % (self.base_url, locale)
LocaleParam(given) == IF given = None THEN default_locale ELSE given

\* requests.post(...) is called inside the with block
PostRequest ==
  /\ pc = "post"
  /\ nSubmits' = nSubmits + 1
  /\ post_locale' = LocaleParam(locale)
  /\ pc' = "posting"
  /\ UNCHANGED << fileOpen, send_result, document_id, saved, written, result, exc >>
  /\ UNCHANGED argVars
  /\ UNCHANGED pollVars
  /\ UNCHANGED dedupVars

WithExitLeaking(raised) == raised

\* the with block is left, by an exception (raised) or not: whether the
\* file handle is open afterwards
WithExit(raised) == FALSE

HasErrorNever(json) == FALSE

\* 'error' in result
HasError(json) == json.error # Absent

\* requests.post returns. send_document: the with block is left, the
\* response is parsed, and a response with an 'error' key raises.
\* extract: document_id = send_result['id'], then get_document is entered.
PostReturns ==
  /\ pc = "posting"
  /\ fileOpen' = WithExit(FALSE)
  /\ \E json \in SubmitResponses :
       /\ send_result' = json
       /\ IF HasError(json)
            THEN /\ Raise(Exc("ValueError", json.error))
                 /\ UNCHANGED document_id
            ELSE IF json.id = Absent
              THEN /\ Raise(Exc("KeyError", "id"))
                   /\ UNCHANGED document_id
              ELSE /\ document_id' = json.id
                   /\ pc' = "get_document"
                   /\ UNCHANGED << result, exc >>
  /\ UNCHANGED << nSubmits, post_locale, saved, written >>
  /\ UNCHANGED argVars
  /\ UNCHANGED pollVars
  /\ UNCHANGED dedupVars

\* as PostRaises, but the upload is tried again
PostRaisesRetrying ==
  /\ pc = "posting"
  /\ fileOpen' = FALSE
  /\ pc' = "send_document"
  /\ UNCHANGED << send_result, document_id, nSubmits, post_locale, saved,
                  written, result, exc >>
  /\ UNCHANGED argVars
  /\ UNCHANGED pollVars
  /\ UNCHANGED dedupVars

\* requests.post raises inside the with block, or json.loads(response.text)
\* raises behind it: the exception leaves send_document and extract
PostRaises ==
  /\ pc = "posting"
  /\ \E e \in RequestFailures :
       /\ fileOpen' = WithExit(e.type = "ConnectionError")
       /\ Raise(e)
  /\ UNCHANGED << send_result, document_id, nSubmits, post_locale, saved,
                  written >>
  /\ UNCHANGED argVars
  /\ UNCHANGED pollVars
  /\ UNCHANGED dedupVars

---------------------------------------------------------------------------
(* get_document: polling.poll(target, check_success=is_done,               *)
(*                            step=sleep_secs, timeout=...)                *)

\* round(x) of a non-negative x given in ticks (x = p / TicksPerSec)
Round(p, py) ==
  LET q == p \div TicksPerSec
  IN  IF p % TicksPerSec = 0 THEN q
      ELSE IF py = 2 THEN q + 1           \* Python 2: half away from zero
      ELSE IF q % 2 = 0 THEN q ELSE q + 1 \* Python 3: half to even

\* int(round(max_retries * sleep_secs)), in seconds
Timeout(retries, ticks, py) == Round(retries * ticks, py)

\* polling.poll: max_time = time.time() + timeout if timeout else None
MaxTime(timeout) ==
  IF timeout # 0 THEN [set |-> TRUE, at |-> timeout * TicksPerSec]
  ELSE NoDeadline

\* get_document enters polling.poll
PollStart ==
  /\ pc = "get_document"
  /\ \E py \in PyMajors :
       deadline' = MaxTime(Timeout(max_retries, sleep_ticks, py))
  /\ now' = 0
  /\ pc' = "poll_target"
  /\ UNCHANGED << val, nQueries, nProcessing, nDone, nFailed, firstDone,
                  lastFailure, saved, written, result, exc >>
  /\ UNCHANGED sendVars
  /\ UNCHANGED argVars
  /\ UNCHANGED dedupVars

\* polling.poll calls its target, get_document_status, which raises for a
\* filter that is neither 'best' nor 'all'
StatusBadFilter ==
  /\ pc = "poll_target"
  /\ filter \notin ValidFilters
  /\ Raise(Exc("ValueError", "Filter can be one of {'best', 'all'}"))
  /\ UNCHANGED << saved, written >>
  /\ UNCHANGED sendVars
  /\ UNCHANGED argVars
  /\ UNCHANGED pollVars
  /\ UNCHANGED dedupVars

\* get_document_status calls requests.get
StatusRequest ==
  /\ pc = "poll_target"
  /\ filter \in ValidFilters
  /\ ~ deadline.set => nQueries < MaxQueries
  /\ nQueries' = nQueries + 1
  /\ pc' = "get"
  /\ UNCHANGED << deadline, now, val, nProcessing, nDone, nFailed, firstDone,
                  lastFailure, saved, written, result, exc >>
  /\ UNCHANGED sendVars
  /\ UNCHANGED argVars
  /\ UNCHANGED dedupVars

is_done_when_ready(response_json) == response_json.status = "ready"

\* is_done, the check_success of the poll
is_done(response_json) == response_json.status # "processing"

\* polling.poll: if max_time is not None and time.time() >= max_time
TimedOut(max_time, time) == max_time.set /\ time >= max_time.at

\* requests.get returns after d ticks with a JSON object that has a status
StatusReturns ==
  /\ pc = "get"
  /\ \E d \in 0..MaxQueryTicks, r \in StatusResponses :
       /\ now' = now + d
       /\ val' = r
       /\ IF r.status = "processing"
            THEN /\ nProcessing' = nProcessing + 1
                 /\ UNCHANGED << nDone, firstDone >>
            ELSE /\ nDone' = nDone + 1
                 /\ firstDone' = IF nDone = 0 THEN r ELSE firstDone
                 /\ UNCHANGED nProcessing
       /\ IF is_done(r)
            THEN \* the poll returns val, and so does get_document
                 IF entry = "get_document"
                   THEN Return(r)
                   ELSE /\ pc' = "extract_check"
                        /\ UNCHANGED << result, exc >>
            ELSE IF TimedOut(deadline, now')
                   THEN Raise(Exc("TimeoutException", ""))
                   ELSE /\ pc' = "sleep"
                        /\ UNCHANGED << result, exc >>
  /\ UNCHANGED << deadline, nQueries, nFailed, lastFailure, saved, written >>
  /\ UNCHANGED sendVars
  /\ UNCHANGED argVars
  /\ UNCHANGED dedupVars

\* as StatusRaises, but the poll ignores the exception and goes on
StatusRaisesIgnored ==
  /\ pc = "get"
  /\ \E d \in 0..MaxQueryTicks, e \in StatusFailures :
       /\ now' = now + d
       /\ lastFailure' = e
  /\ nFailed' = nFailed + 1
  /\ pc' = "sleep"
  /\ UNCHANGED << deadline, val, nQueries, nProcessing, nDone, firstDone,
                  saved, written, result, exc >>
  /\ UNCHANGED sendVars
  /\ UNCHANGED argVars
  /\ UNCHANGED dedupVars

\* requests.get raises, json.loads does, or the JSON object has no 'status':
\* the poll ignores no exception (ignore_exceptions=()), so the exception
\* leaves the poll, get_document and extract
StatusRaises ==
  /\ pc = "get"
  /\ \E d \in 0..MaxQueryTicks, e \in StatusFailures :
       /\ now' = now + d
       /\ lastFailure' = e
       /\ Raise(e)
  /\ nFailed' = nFailed + 1
  /\ UNCHANGED << deadline, val, nQueries, nProcessing, nDone, firstDone,
                  saved, written >>
  /\ UNCHANGED sendVars
  /\ UNCHANGED argVars
  /\ UNCHANGED dedupVars

\* polling.poll: time.sleep(step), then the target is called again
Sleep ==
  /\ pc = "sleep"
  /\ now' = now + sleep_ticks
  /\ pc' = "poll_target"
  /\ UNCHANGED << deadline, val, nQueries, nProcessing, nDone, nFailed,
                  firstDone, lastFailure, saved, written, result, exc >>
  /\ UNCHANGED sendVars
  /\ UNCHANGED argVars
  /\ UNCHANGED dedupVars

---------------------------------------------------------------------------
(* extract, after get_document has returned *)

IsErrorNever(extraction) == extraction.status = "failed"

\* extraction['status'] == 'error'
IsError(extraction) == extraction.status = "error"

\* raise ValueError(extraction['message'])
ExtractRaisesError ==
  /\ pc = "extract_check"
  /\ IsError(val)
  /\ IF val.message = Absent
       THEN Raise(Exc("KeyError", "message"))
       ELSE Raise(Exc("ValueError", val.message))
  /\ UNCHANGED << saved, written >>
  /\ UNCHANGED sendVars
  /\ UNCHANGED argVars
  /\ UNCHANGED pollVars
  /\ UNCHANGED dedupVars

\* json.dump(extraction, f, indent=4): what the output file holds
SavedContent(extraction) == extraction

\* if output_file is not None: self._save_extraction(extraction, output_file)
ExtractSaves ==
  /\ pc = "extract_check"
  /\ ~ IsError(val)
  /\ output_file
  /\ saved' = saved + 1
  /\ written' = SavedContent(val)
  /\ pc' = "extract_return"
  /\ UNCHANGED << result, exc >>
  /\ UNCHANGED sendVars
  /\ UNCHANGED argVars
  /\ UNCHANGED pollVars
  /\ UNCHANGED dedupVars

\* output_file is None: nothing is saved
ExtractSkipsSave ==
  /\ pc = "extract_check"
  /\ ~ IsError(val)
  /\ ~ output_file
  /\ pc' = "extract_return"
  /\ UNCHANGED << saved, written, result, exc >>
  /\ UNCHANGED sendVars
  /\ UNCHANGED argVars
  /\ UNCHANGED pollVars
  /\ UNCHANGED dedupVars

\* the preview URL is printed and the extraction is returned
ExtractReturns ==
  /\ pc = "extract_return"
  /\ Return(val)
  /\ UNCHANGED << saved, written >>
  /\ UNCHANGED sendVars
  /\ UNCHANGED argVars
  /\ UNCHANGED pollVars
  /\ UNCHANGED dedupVars

\* _save_extraction raises (os.makedirs or open fails): nothing is returned
ExtractSaveFails ==
  /\ pc = "extract_check"
  /\ ~ IsError(val)
  /\ output_file
  /\ Raise(Exc("IOError", "cannot write output"))
  /\ UNCHANGED << saved, written >>
  /\ UNCHANGED sendVars
  /\ UNCHANGED argVars
  /\ UNCHANGED pollVars
  /\ UNCHANGED dedupVars

---------------------------------------------------------------------------
(***************************************************************************)
(* Part 2: _deduplicate_fields, a pure function on lists of fields.        *)
(*                                                                         *)
(* A leaf field is a record with name, value and score; a composite field  *)
(* is a record with name and content (a list of leaf fields).  The other   *)
(* keys of a field (title) are neither read nor changed and are left out.  *)
(* Scores are integers standing for the floats of the service; names and   *)
(* values are strings, ordered as Python orders them (NameOrder,           *)
(* ValueOrder list them in ascending order).                               *)
(***************************************************************************)

\* longest list of fields given to _deduplicate_fields
MaxLen == 3
\* scores are drawn from 1..MaxScore
MaxScore == 2

Scores == 1..MaxScore

\* the names and values used, in ascending (lexicographic) order
NameOrder ==
  << "amount_total", "sender_addrline", "tax_detail_rate", "tax_details" >>
ValueOrder == << "v1", "v2" >>

\* '_addrline' in name
HasAddrline(name) == name \in {"sender_addrline"}

Leaf(n, v, s) == [name |-> n, value |-> v, score |-> s]
Composite(n, c) == [name |-> n, content |-> c]

TopLeaves ==
  { Leaf(n, v, s) : n \in {"amount_total", "sender_addrline"},
                    v \in {"v1", "v2"}, s \in Scores }
ContentLeaves == { Leaf("tax_detail_rate", "v1", s) : s \in Scores }
ContentLists ==
       { << >> }
  \cup { << a >> : a \in ContentLeaves }
  \cup { << a, b >> : a \in ContentLeaves, b \in ContentLeaves }
TaxDetails == { Composite("tax_details", c) : c \in ContentLists }

Fields == TopLeaves \cup TaxDetails
FieldLists == UNION { [1..n -> Fields] : n \in 0..MaxLen }

\* position of x in the ascending list order
Rank(x, order) == CHOOSE i \in 1..Len(order) : order[i] = x

\* f[key], as a number that orders like the Python value
KeyOf(f, key) ==
  CASE key = "name" -> Rank(f.name, NameOrder)
    [] key = "value" -> Rank(f.value, ValueOrder)
    [] key = "score" -> f.score

\* x put into the sorted list s behind every element whose key is not greater
RECURSIVE InsertSorted(_, _, _)
InsertSorted(s, x, key) ==
  IF s = << >> THEN << x >>
  ELSE IF KeyOf(s[Len(s)], key) <= KeyOf(x, key) THEN Append(s, x)
  ELSE Append(InsertSorted(SubSeq(s, 1, Len(s) - 1), x, key), s[Len(s)])

\* sorted(values, key=lambda f: f[key]): ascending and stable
RECURSIVE sorted(_, _)
sorted(values, key) ==
  IF values = << >> THEN << >>
  ELSE InsertSorted(sorted(SubSeq(values, 1, Len(values) - 1), key),
                    values[Len(values)], key)

\* itertools.groupby(values, lambda f: f[key]): the runs of equal keys, as
\* pairs << f[key], group >>
RECURSIVE groupby(_, _)
groupby(values, key) ==
  IF values = << >> THEN << >>
  ELSE LET rest == groupby(SubSeq(values, 1, Len(values) - 1), key)
           x == values[Len(values)]
       IN  IF rest # << >> /\ rest[Len(rest)][1] = x[key]
             THEN [rest EXCEPT ![Len(rest)][2] = Append(@, x)]
             ELSE Append(rest, << x[key], << x >> >>)

group_by_key(values, key) == groupby(sorted(values, key), key)

sort_by_score(values) == sorted(values, "score")

\* the elements of a list of lists, in order
RECURSIVE Flatten(_)
Flatten(ss) ==
  IF ss = << >> THEN << >> ELSE Head(ss) \o Flatten(Tail(ss))

deduplicate_single_value_field_first(group) == << sort_by_score(group)[1] >>

deduplicate_single_value_field_slice(group) == Tail(sort_by_score(group))

deduplicate_single_value_field_first_tie(group) ==
  LET s == sort_by_score(group)
      i == CHOOSE k \in 1..Len(s) :
             /\ s[k].score = s[Len(s)].score
             /\ \A j \in 1..(k - 1) : s[j].score < s[k].score
  IN  << s[i] >>

deduplicate_single_value_field(group) ==
  LET s == sort_by_score(group) IN << s[Len(s)] >>

deduplicate_multi_value_field_as_single(group) ==
  deduplicate_single_value_field(group)

deduplicate_multi_value_field(group) ==
  LET groups == group_by_key(group, "value")
  IN  [i \in 1..Len(groups) |->
         LET s == sort_by_score(groups[i][2]) IN s[Len(s)]]

RECURSIVE deduplicate_fields(_)

deduplicate_content_shallow(item) == item

deduplicate_content(item) ==
  [item EXCEPT !.content = deduplicate_fields(item.content)]

deduplicate_group(name, group) ==
  IF name = "tax_details"
    THEN [i \in 1..Len(group) |-> deduplicate_content(group[i])]
  ELSE IF HasAddrline(name)
    THEN deduplicate_multi_value_field(group)
    ELSE deduplicate_single_value_field(group)

deduplicate_fields(fields) ==
  LET groups == group_by_key(fields, "name")
  IN  Flatten([i \in 1..Len(groups) |->
                 deduplicate_group(groups[i][1], groups[i][2])])

_deduplicate_fields(fields) == deduplicate_fields(fields)

item_after_assignment(item) == deduplicate_content(item)

\* the dict passed to deduplicate_content, after the call: the assignment
\* new_item['content'] = ... goes to the copy made by item.copy(), and
\* deduplicate_fields builds the new content from the old without changing it
item_after(item) == item

\* the list passed to _deduplicate_fields, after the call: sorted() and the
\* comprehensions build new lists that hold the dicts of the argument; the
\* only dicts a function is applied to are those handed to deduplicate_content
fields_after(fields) ==
  [i \in 1..Len(fields) |->
     IF fields[i].name = "tax_details" THEN item_after(fields[i])
     ELSE fields[i]]

\* a caller (print_summary) passes a list of fields
Deduplicate ==
  /\ calls = 0
  /\ deduplicated' = _deduplicate_fields(invoice_fields)
  /\ invoice_fields' = fields_after(invoice_fields)
  /\ calls' = 1
  /\ UNCHANGED again
  /\ UNCHANGED protocolVars

\* the returned list is passed to _deduplicate_fields again
DeduplicateAgain ==
  /\ calls = 1
  /\ again' = _deduplicate_fields(deduplicated)
  /\ deduplicated' = fields_after(deduplicated)
  /\ calls' = 2
  /\ UNCHANGED invoice_fields
  /\ UNCHANGED protocolVars

DedupInit ==
  /\ ProtocolInit
  /\ invoice_fields \in FieldLists
  /\ deduplicated = << >>
  /\ again = << >>
  /\ calls = 0

DedupNext ==
  \/ Deduplicate
  \/ DeduplicateAgain

SpecDedup == DedupInit /\ [][DedupNext]_vars

---------------------------------------------------------------------------
Next ==
  \/ CallExtract
  \/ CallGetDocument
  \/ OpenDocument
  \/ OpenDocumentFails
  \/ PostRequest
  \/ PostReturns
  \/ PostRaises
  \/ PollStart
  \/ StatusBadFilter
  \/ StatusRequest
  \/ StatusReturns
  \/ StatusRaises
  \/ Sleep
  \/ ExtractRaisesError
  \/ ExtractSaves
  \/ ExtractSkipsSave
  \/ ExtractReturns
  \/ ExtractSaveFails

Spec == Init /\ [][Next]_vars

---------------------------------------------------------------------------
(* Properties of the protocol, checked under Spec *)

\* C1: the poll returns the response of the first status request whose
\* status is not 'processing' and sends no status request after it: once
\* such a response has been received it is the only one, it is the value
\* the poll hands back, the call is past the polling loop, and the number of
\* status requests is the number of 'processing' responses plus one.
C1_ReturnsFirstDone ==
  /\ nDone > 0 =>
       /\ nDone = 1
       /\ val = firstDone
       /\ pc \in {"extract_check", "extract_return", "done"}
       /\ nQueries = nProcessing + 1
  /\ (pc = "done" /\ exc = NoExc) =>
       /\ nDone = 1
       /\ result = firstDone
       /\ result.status # "processing"
       /\ nQueries = nProcessing + 1

\* processing, processing, ready with sleep_secs = 0: the ready response is
\* returned after exactly 3 status requests
C1_Witness ==
  /\ pc = "done"
  /\ entry = "get_document"
  /\ sleep_ticks = 0
  /\ nProcessing = 2
  /\ nQueries = 3
  /\ result \in StatusResponses
  /\ result.status = "ready"

\* C2: when every status request has answered 'processing' and the budget
\* of max_retries * sleep_secs seconds is used up, get_document fails with
\* a timeout: the poll never decides to sleep and ask again once the time
\* since its start has reached the budget.
C2_TimeoutWhenBudgetUsed ==
  (pc = "sleep" /\ nDone = 0 /\ nFailed = 0) =>
    now < max_retries * sleep_ticks

\* C3: a submit response with an 'error' key makes extract fail at once with
\* that error, and no status request is ever sent.
C3_NoQueryAfterSubmitError ==
  send_result.error # Absent =>
    /\ pc = "done"
    /\ exc = Exc("ValueError", send_result.error)
    /\ result = NoResponse
    /\ nQueries = 0

\* extract has failed on a submit response that has an 'error' key (and an
\* 'id' as well)
C3_Witness ==
  /\ entry = "extract"
  /\ pc = "done"
  /\ send_result.error # Absent
  /\ send_result.id # Absent
  /\ exc.type = "ValueError"

\* C4: a call of extract sends at most one POST /document, whatever its
\* outcome.
C4_AtMostOneSubmit == nSubmits <= 1

\* extract has ended in a timeout of the poll, after one submit and more
\* than one status request
C4_Witness ==
  /\ entry = "extract"
  /\ pc = "done"
  /\ exc.type = "TimeoutException"
  /\ nSubmits = 1
  /\ nQueries > 1

\* C5: extract with a filter that is neither 'best' nor 'all' fails before
\* any request is made: no document is submitted and no status request is
\* sent.
C5_BadFilterBeforeNetwork ==
  (entry = "extract" /\ filter \notin ValidFilters) =>
    /\ nSubmits = 0
    /\ nQueries = 0

\* C6: when the poll ends with status 'error' and the service gave a
\* message, extract raises an error with exactly that message and returns
\* nothing.
C6_ErrorMessageVerbatim ==
  ( /\ entry = "extract"
    /\ pc = "done"
    /\ nDone > 0
    /\ val.status = "error"
    /\ val.message # Absent ) =>
    /\ exc = Exc("ValueError", val.message)
    /\ result = NoResponse

\* extract has failed with the second message of the service
C6_Witness ==
  /\ entry = "extract"
  /\ pc = "done"
  /\ val.status = "error"
  /\ val.message = "msg-b"
  /\ exc.msg = "msg-b"
  /\ nProcessing > 0

\* C7: a status request that fails (network error, malformed JSON) ends the
\* call with that exception: it is the only failed request, it was the last
\* request sent, nothing is returned, and no submit follows it.
C7_StatusFailurePropagates ==
  nFailed > 0 =>
    /\ nFailed = 1
    /\ lastFailure \in StatusFailures
    /\ pc = "done"
    /\ exc = lastFailure
    /\ result = NoResponse
    /\ nQueries = nProcessing + nDone + 1
    /\ nSubmits <= 1

\* extract has failed on a network error of a status request that followed
\* 'processing' responses
C7_Witness ==
  /\ entry = "extract"
  /\ nFailed = 1
  /\ nProcessing > 1
  /\ pc = "done"
  /\ exc.type = "ConnectionError"

\* C8: the document file handle is open only while the upload request is
\* made: it is closed in every state behind the upload, whether the request
\* returned or raised.
C8_HandleClosedAfterUpload ==
  fileOpen => pc \in {"post", "posting"}

\* the upload request raised, and the handle is closed
C8_Witness ==
  /\ entry = "extract"
  /\ pc = "done"
  /\ nSubmits = 1
  /\ exc.type = "ConnectionError"
  /\ nQueries = 0
  /\ ~ fileOpen

\* C15: for every max_retries >= 0 and sleep_secs >= 0, zero included, a
\* poll of a job that stays 'processing' ends with a timeout and does not go
\* on polling.  A poll that ends once int(round(max_retries * sleep_secs))
\* seconds have passed, with its requests sleep_secs apart, sends at most
\* max_retries + 2 status requests (one at its start, one behind each sleep,
\* and one more where the timeout is rounded up); with a timeout of 0 it
\* sends one.  So no call sends more than max_retries + 2.
C15_PollingEnds == nQueries <= max_retries + 2

\* what holds of the code: the bound on the status requests of a poll that
\* has a deadline
PollWithDeadlineEnds == deadline.set => nQueries <= max_retries + 2

\* C17: extract with an output_file writes the file exactly once and only
\* when it succeeds: the file is written at most once; when it has been
\* written, extract was called with an output_file, a status request has
\* returned a 'ready' response, the file holds exactly that response, and
\* extract is between the write and its return or has returned normally;
\* an extract that returns with an output_file has written the file, with
\* the value it returns; a call that ends in an exception (submission
\* error, 'error' status, timeout, transport failure) has written nothing.
C17_SavedOnceOnSuccess ==
  /\ saved <= 1
  /\ saved = 0 => written = NoResponse
  /\ saved = 1 =>
       /\ entry = "extract"
       /\ output_file
       /\ nDone = 1
       /\ firstDone.status = "ready"
       /\ written = firstDone
       /\ pc \in {"extract_return", "done"}
       /\ exc = NoExc
  /\ (pc = "done" /\ exc = NoExc /\ entry = "extract" /\ output_file) =>
       /\ saved = 1
       /\ written = result
  /\ (pc = "done" /\ exc # NoExc) => saved = 0

\* extract with an output_file: processing, then ready; the file holds the
\* ready response, which is also the value returned
C17_Witness ==
  /\ pc = "done"
  /\ entry = "extract"
  /\ output_file
  /\ exc = NoExc
  /\ nProcessing > 0
  /\ saved = 1
  /\ written = result
  /\ result.status = "ready"

\* the failing paths of an extract with an output_file, each ending with
\* nothing written: here the terminal 'error' status
C17_WitnessError ==
  /\ pc = "done"
  /\ entry = "extract"
  /\ output_file
  /\ exc.type = "ValueError"
  /\ nDone = 1
  /\ firstDone.status = "error"
  /\ saved = 0

\* C18 (as stated): the POST /document request carries a locale parameter
\* only if the caller gave a locale, and then the caller's value; without a
\* locale from the caller the request has no locale parameter.
C18_LocaleOnlyIfGiven ==
  nSubmits >= 1 =>
    post_locale = (IF locale = None THEN Absent ELSE locale)

\* C18 (amended): the POST /document request always carries a locale
\* parameter: the caller's value when the caller gave one, and the client's
\* default_locale 'en_GB' when the caller gave none.
C18_LocaleAlwaysSent ==
  /\ nSubmits = 0 => post_locale = Absent
  /\ nSubmits >= 1 =>
       /\ post_locale # Absent
       /\ locale # None => post_locale = locale
       /\ locale = None => post_locale = "en_GB"

\* extract called without a locale: the request was sent with locale=en_GB
C18_Witness ==
  /\ entry = "extract"
  /\ locale = None
  /\ nSubmits = 1
  /\ post_locale = "en_GB"

\* extract called with a locale: the request was sent with that locale
C18_WitnessGiven ==
  /\ entry = "extract"
  /\ locale = "en_US"
  /\ nSubmits = 1
  /\ post_locale = "en_US"

---------------------------------------------------------------------------
(* Properties of _deduplicate_fields, checked under SpecDedup *)

\* the entries of a list that have the name n
Named(list, n) == SelectSeq(list, LAMBDA f : f.name = n)

\* the greatest score of a non-empty list of leaf fields
MaxScoreOf(list) ==
  CHOOSE m \in { list[i].score : i \in 1..Len(list) } :
    \A i \in 1..Len(list) : list[i].score <= m

\* the names of the single-value policy
SingleValueNames ==
  { n \in { NameOrder[i] : i \in 1..Len(NameOrder) } :
      n # "tax_details" /\ ~ HasAddrline(n) }

\* C9: _deduplicate_fields is idempotent: applied to its own result it
\* returns that result.
C9_Idempotent == calls = 2 => again = deduplicated

\* a list of three fields, among them a tax_details entry whose content
\* was shortened, has been deduplicated twice, and the first call removed
\* an entry
C9_Witness ==
  /\ calls = 2
  /\ Len(invoice_fields) = 3
  /\ Len(deduplicated) = 2
  /\ \E i \in 1..Len(deduplicated), j \in 1..Len(invoice_fields) :
       /\ deduplicated[i].name = "tax_details"
       /\ invoice_fields[j].name = "tax_details"
       /\ Len(invoice_fields[j].content) = 2
       /\ Len(deduplicated[i].content) = 1

\* C10: for every name of the single-value policy that occurs in the input,
\* the output holds exactly one entry of that name, it is an entry of the
\* input, and its score is the greatest score of the entries of that name.
C10_SingleValueMax ==
  calls >= 1 =>
    \A n \in SingleValueNames :
      LET group == Named(invoice_fields, n)
          kept == Named(deduplicated, n)
      IN  group # << >> =>
            /\ Len(kept) = 1
            /\ \E i \in 1..Len(group) : group[i] = kept[1]
            /\ kept[1].score = MaxScoreOf(group)

\* three amount_total entries, the first with the greatest score, have been
\* collapsed to the first
C10_Witness ==
  /\ calls >= 1
  /\ Len(invoice_fields) = 3
  /\ \A i \in 1..3 : invoice_fields[i].name = "amount_total"
  /\ invoice_fields[1].score > invoice_fields[2].score
  /\ invoice_fields[1].score > invoice_fields[3].score
  /\ deduplicated = << invoice_fields[1] >>

\* the values of a list of leaf fields
ValuesOf(list) == { list[i].value : i \in 1..Len(list) }

\* the entries of a list of leaf fields that have the value v
Valued(list, v) == SelectSeq(list, LAMBDA f : f.value = v)

\* the names that contain '_addrline'
AddrlineNames ==
  { n \in { NameOrder[i] : i \in 1..Len(NameOrder) } : HasAddrline(n) }

\* C11: for every name that contains '_addrline', the output holds exactly
\* one entry of that name for each value that occurs among the input entries
\* of that name, and no other entry of that name; the score of the entry is
\* the greatest score of the input entries of that name and value.
C11_AddrlineOnePerValue ==
  calls >= 1 =>
    \A n \in AddrlineNames :
      LET group == Named(invoice_fields, n)
          kept == Named(deduplicated, n)
      IN  /\ ValuesOf(kept) = ValuesOf(group)
          /\ Len(kept) = Cardinality(ValuesOf(group))
          /\ \A v \in ValuesOf(group) :
               /\ Len(Valued(kept, v)) = 1
               /\ Valued(kept, v)[1].score = MaxScoreOf(Valued(group, v))

\* the value v1 twice, with the greater score first, and the value v2 once:
\* two entries are kept, v1 with the greater score
C11_Witness ==
  /\ calls >= 1
  /\ Len(invoice_fields) = 3
  /\ \A i \in 1..3 : invoice_fields[i].name = "sender_addrline"
  /\ invoice_fields[1].value = "v1" /\ invoice_fields[1].score = 2
  /\ invoice_fields[2].value = "v1" /\ invoice_fields[2].score = 1
  /\ invoice_fields[3].value = "v2"
  /\ deduplicated = << invoice_fields[1], invoice_fields[3] >>

\* C12: the output holds as many tax_details entries as the input, in the
\* same order, and the content of each is the deduplicated content of the
\* input entry: empty for an empty content, otherwise (the content being
\* entries of one single-value name) one entry with the greatest score.
C12_TaxDetailsKept ==
  calls >= 1 =>
    LET group == Named(invoice_fields, "tax_details")
        kept == Named(deduplicated, "tax_details")
    IN  /\ Len(kept) = Len(group)
        /\ \A i \in 1..Len(group) :
             /\ DOMAIN kept[i] = DOMAIN group[i]
             /\ kept[i].content = _deduplicate_fields(group[i].content)
             /\ group[i].content = << >> => kept[i].content = << >>
             /\ group[i].content # << >> =>
                  /\ Len(kept[i].content) = 1
                  /\ kept[i].content[1].score = MaxScoreOf(group[i].content)
                  /\ \E j \in 1..Len(group[i].content) :
                       kept[i].content[1] = group[i].content[j]

\* two tax_details entries, the first with two content entries of different
\* scores: both are kept and the first content is collapsed
C12_Witness ==
  /\ calls >= 1
  /\ Len(invoice_fields) = 2
  /\ \A i \in 1..2 : invoice_fields[i].name = "tax_details"
  /\ Len(invoice_fields[1].content) = 2
  /\ invoice_fields[1].content[1].score > invoice_fields[1].content[2].score
  /\ Len(invoice_fields[2].content) = 1
  /\ Len(deduplicated) = 2
  /\ deduplicated[1].content = << invoice_fields[1].content[1] >>
  /\ deduplicated[2] = invoice_fields[2]

\* every name of the model
AllNames == { NameOrder[i] : i \in 1..Len(NameOrder) }

\* C13, as claimed: a name with a single entry in the input has that very
\* entry, unchanged, as its only entry in the output, under every policy.
C13_SingleEntryUnchanged ==
  calls >= 1 =>
    \A n \in AllNames :
      Len(Named(invoice_fields, n)) = 1 =>
        Named(deduplicated, n) = Named(invoice_fields, n)

\* C13, amended: a name with a single entry in the input has a single entry
\* in the output.  Under the single-value and the _addrline policy it is the
\* input entry, unchanged.  A single tax_details entry keeps its keys, and
\* its content is the deduplicated content of the input entry: it is the
\* input entry unchanged if the content has at most one entry.
C13_SingleEntrySurvives ==
  calls >= 1 =>
    \A n \in AllNames :
      LET group == Named(invoice_fields, n)
          kept == Named(deduplicated, n)
      IN  Len(group) = 1 =>
            /\ Len(kept) = 1
            /\ n # "tax_details" => kept = group
            /\ n = "tax_details" =>
                 /\ DOMAIN kept[1] = DOMAIN group[1]
                 /\ kept[1].content = _deduplicate_fields(group[1].content)
                 /\ Len(group[1].content) <= 1 => kept = group

\* three single entries, one of each policy; the tax_details entry has two
\* content entries and comes out with one
C13_Witness ==
  /\ calls >= 1
  /\ Len(invoice_fields) = 3
  /\ invoice_fields[1].name = "tax_details"
  /\ Len(invoice_fields[1].content) = 2
  /\ invoice_fields[2].name = "sender_addrline"
  /\ invoice_fields[3].name = "amount_total"
  /\ Len(deduplicated) = 3
  /\ deduplicated[1] = invoice_fields[3]
  /\ deduplicated[2] = invoice_fields[2]
  /\ deduplicated[3].name = "tax_details"
  /\ Len(deduplicated[3].content) = 1

TopPositions(list) ==
  { i \in 1..Len(list) : list[i].score = MaxScoreOf(list) }

\* the least and the greatest element of a non-empty set of numbers
Least(S) == CHOOSE i \in S : \A j \in S : i <= j
Greatest(S) == CHOOSE i \in S : \A j \in S : j <= i

\* C16, as claimed: when several entries of a single-value name have the
\* greatest score, the first of them in the input is the entry kept.
C16_FirstOfTiesKept ==
  calls >= 1 =>
    \A n \in SingleValueNames :
      LET group == Named(invoice_fields, n)
      IN  (group # << >> /\ Cardinality(TopPositions(group)) >= 2) =>
            Named(deduplicated, n) = << group[Least(TopPositions(group))] >>

\* C16, amended: when several entries of a single-value name have the
\* greatest score, the last of them in the input is the entry kept.
C16_LastOfTiesKept ==
  calls >= 1 =>
    \A n \in SingleValueNames :
      LET group == Named(invoice_fields, n)
      IN  (group # << >> /\ Cardinality(TopPositions(group)) >= 2) =>
            Named(deduplicated, n) = << group[Greatest(TopPositions(group))] >>

\* two amount_total entries of the greatest score with different values,
\* followed by one of a lower score: the second is kept
C16_Witness ==
  /\ calls >= 1
  /\ Len(invoice_fields) = 3
  /\ \A i \in 1..3 : invoice_fields[i].name = "amount_total"
  /\ invoice_fields[1].score = invoice_fields[2].score
  /\ invoice_fields[1].value # invoice_fields[2].value
  /\ invoice_fields[3].score < invoice_fields[2].score
  /\ deduplicated = << invoice_fields[2] >>

\* the names of a list of fields
NamesOf(list) == { list[i].name : i \in 1..Len(list) }

\* C19: the names of the output are the names of the input, and every
\* output entry whose name is not tax_details is an entry of the input.
C19_NamesKept ==
  calls >= 1 =>
    /\ NamesOf(deduplicated) = NamesOf(invoice_fields)
    /\ \A i \in 1..Len(deduplicated) :
         deduplicated[i].name # "tax_details" =>
           \E j \in 1..Len(invoice_fields) :
             invoice_fields[j] = deduplicated[i]

\* two amount_total entries and a tax_details entry: the output has one
\* entry of each of the two names
C19_Witness ==
  /\ calls >= 1
  /\ Len(invoice_fields) = 3
  /\ NamesOf(invoice_fields) = {"amount_total", "tax_details"}
  /\ Len(Named(invoice_fields, "amount_total")) = 2
  /\ Len(deduplicated) = 2
  /\ NamesOf(deduplicated) = {"amount_total", "tax_details"}

=============================================================================
